---------------------------- MODULE Spec2Model ----------------------------
(***************************************************************************)
(* SeqHREWordGlobalAttention (onmt/modules/seq_hre_word_global_attention.py)*)
(*                                                                         *)
(* The module object (its construction-time configuration and its          *)
(* Parameters), the tensors a caller hands to forward, and forward itself. *)
(*                                                                         *)
(* Floating point values are modelled by exact rationals extended with the *)
(* IEEE specials -inf, +inf and NaN.  A tensor is a shape and its elements *)
(* in row-major order, so that view / unsqueeze / squeeze change the shape *)
(* only and transpose(0, 1).contiguous() permutes the elements.            *)
(*                                                                         *)
(* exp and tanh are not rational valued.  They are replaced by rational    *)
(* functions with the properties the attention pipeline relies on:         *)
(*   Exp  is positive and strictly increasing, Exp(0) = 1, Exp(-inf) = 0,  *)
(*        Exp(NaN) = NaN;                                                   *)
(*   Tanh is odd, strictly increasing, with values in (-1, 1), Tanh(0) = 0.*)
(***************************************************************************)
EXTENDS Integers, Sequences, FiniteSets, TLC

(***************************************************************************)
(* Extended rational numbers                                               *)
(***************************************************************************)
Abs(x) == IF x < 0 THEN -x ELSE x

RECURSIVE GCD(_, _)
GCD(a, b) == IF b = 0 THEN a ELSE GCD(b, a % b)

NaN == [k |-> "nan", n |-> 0, d |-> 1]

NInf == [k |-> "ninf", n |-> 0, d |-> 1]

PInf == [k |-> "pinf", n |-> 0, d |-> 1]

\* the rational n/d (d # 0) in lowest terms with a positive denominator
Rat(n, d) ==
    LET g == GCD(Abs(n), Abs(d))
        s == IF d < 0 THEN -1 ELSE 1
    IN  [k |-> "fin", n |-> (s * n) \div g, d |-> Abs(d) \div g]

Int2Num(i) == [k |-> "fin", n |-> i, d |-> 1]

Zero == Int2Num(0)

One == Int2Num(1)

IsNaN(x) == x.k = "nan"

IsFin(x) == x.k = "fin"

IsZero(x) == x.k = "fin" /\ x.n = 0

\* -1, 0, 1: the sign of a value that is not NaN
Sign(x) ==
    CASE x.k = "pinf" -> 1
      [] x.k = "ninf" -> -1
      [] OTHER -> IF x.n > 0 THEN 1 ELSE IF x.n < 0 THEN -1 ELSE 0

SignedInf(s) == IF s > 0 THEN PInf ELSE NInf

Neg(x) ==
    CASE x.k = "nan" -> NaN
      [] x.k = "pinf" -> NInf
      [] x.k = "ninf" -> PInf
      [] OTHER -> [k |-> "fin", n |-> -x.n, d |-> x.d]

Add(x, y) ==
    CASE x.k = "nan" \/ y.k = "nan" -> NaN
      [] x.k = "fin" /\ y.k = "fin" -> Rat(x.n * y.d + y.n * x.d, x.d * y.d)
      [] x.k = "fin" -> y
      [] y.k = "fin" -> x
      [] OTHER -> IF x.k = y.k THEN x ELSE NaN

Sub(x, y) == Add(x, Neg(y))

Mul(x, y) ==
    CASE x.k = "nan" \/ y.k = "nan" -> NaN
      [] x.k = "fin" /\ y.k = "fin" -> Rat(x.n * y.n, x.d * y.d)
      [] OTHER -> IF Sign(x) * Sign(y) = 0 THEN NaN
                  ELSE SignedInf(Sign(x) * Sign(y))

\* IEEE division (signed zeros are not distinguished: x / 0 takes x's sign)
Div(x, y) ==
    CASE x.k = "nan" \/ y.k = "nan" -> NaN
      [] x.k = "fin" /\ y.k = "fin" ->
            IF y.n # 0 THEN Rat(x.n * y.d, x.d * y.n)
            ELSE IF x.n = 0 THEN NaN ELSE SignedInf(Sign(x))
      [] x.k = "fin" -> Zero
      [] y.k = "fin" -> SignedInf(IF Sign(y) < 0 THEN -Sign(x) ELSE Sign(x))
      [] OTHER -> NaN

\* IEEE comparisons: every comparison with NaN is false
Lt(x, y) ==
    CASE x.k = "nan" \/ y.k = "nan" -> FALSE
      [] x.k = "fin" /\ y.k = "fin" -> x.n * y.d < y.n * x.d
      [] OTHER -> x.k # y.k /\ (x.k = "ninf" \/ y.k = "pinf")

NumEq(x, y) == ~IsNaN(x) /\ ~IsNaN(y) /\ x = y

Le(x, y) == Lt(x, y) \/ NumEq(x, y)

\* the rational stand-in of exp
Exp(x) ==
    CASE x.k = "nan" -> NaN
      [] x.k = "ninf" -> Zero
      [] x.k = "pinf" -> PInf
      [] OTHER -> IF x.n <= 0 THEN Rat(x.d, x.d - x.n) ELSE Rat(x.d + x.n, x.d)

\* the rational stand-in of tanh
Tanh(x) ==
    CASE x.k = "nan" -> NaN
      [] x.k = "ninf" -> Int2Num(-1)
      [] x.k = "pinf" -> One
      [] OTHER -> Rat(x.n, x.d + Abs(x.n))

RECURSIVE SumSeq(_)
SumSeq(s) == IF s = <<>> THEN Zero ELSE Add(Head(s), SumSeq(Tail(s)))

RECURSIVE MaxSeq(_)
MaxSeq(s) ==
    IF Len(s) = 1 THEN s[1]
    ELSE LET m == MaxSeq(Tail(s))
         IN  IF IsNaN(s[1]) \/ IsNaN(m) THEN NaN
             ELSE IF Lt(s[1], m) THEN m ELSE s[1]

RECURSIVE Prod(_)
Prod(s) == IF s = <<>> THEN 1 ELSE Head(s) * Prod(Tail(s))

Range(s) == {s[i] : i \in 1..Len(s)}


(***************************************************************************)
(* Tensors: [shape, data], data in row-major order.  None is NoneT.        *)
(***************************************************************************)
NoneT == [shape |-> <<>>, data |-> <<>>]

IsNone(t) == t = NoneT

Rank(t) == Len(t.shape)

Numel(shape) == Prod(shape)

\* tensor.unsqueeze(1)
Unsqueeze1(t) ==
    [shape |-> <<t.shape[1], 1>> \o Tail(t.shape), data |-> t.data]

\* tensor.squeeze(1): drops axis 1 when its size is 1
Squeeze1(t) ==
    IF t.shape[2] = 1
    THEN [shape |-> <<t.shape[1]>> \o Tail(Tail(t.shape)), data |-> t.data]
    ELSE t

\* 3D tensor.transpose(0, 1).contiguous()
Transpose01(t) ==
    LET B == t.shape[1]
        T == t.shape[2]
        X == t.shape[3]
    IN  [shape |-> <<T, B, X>>,
         data |-> [k \in 1..(B * T * X) |->
                     LET i == (k - 1) \div (B * X)
                         b == ((k - 1) % (B * X)) \div X
                         x == (k - 1) % X
                     IN  t.data[(b * T + i) * X + x + 1]]]

\* the last-axis row (b, i) of a 3D tensor and the row b of a 2D one
Row3(t, b, i) ==
    LET X == t.shape[3]
        off == ((b - 1) * t.shape[2] + (i - 1)) * X
    IN  [x \in 1..X |-> t.data[off + x]]

Row2(t, b) == [x \in 1..t.shape[2] |-> t.data[(b - 1) * t.shape[2] + x]]

\* the 3D tensor of shape (B, T, X) whose rows are F(b, i)
Mk3(B, T, X, F(_, _)) ==
    [shape |-> <<B, T, X>>,
     data |-> [k \in 1..(B * T * X) |->
                 F(((k - 1) \div (T * X)) + 1,
                   (((k - 1) % (T * X)) \div X) + 1)[((k - 1) % X) + 1]]]

Dot(x, y) == SumSeq([i \in 1..Len(x) |-> Mul(x[i], y[i])])

\* nn.Linear: weight of shape (out, in), bias of shape (out,) or None
Linear(W, bias, x) ==
    [o \in 1..W.shape[1] |->
        LET wx == Dot(Row2(W, o), x)
        IN  IF IsNone(bias) THEN wx ELSE Add(wx, bias.data[o])]

(***************************************************************************)
(* Construction: __init__                                                  *)
(***************************************************************************)
AttnTypes == {"dot", "general", "mlp"}

AttnFuncs == {"softmax", "sparsemax"}

\* the dimensions a unit is built with
Dims == {1, 2}

Configs ==
    [dim : Dims, coverage : BOOLEAN, attn_type : AttnTypes,
     attn_func : AttnFuncs, output_attn_h : BOOLEAN,
     seqHRE_attn_rescale : BOOLEAN]

\* a freshly initialized weight of the given shape: the initializer is
\* deterministic, the entries alternate between 1 and 2 starting at 1 + seed
WeightInit(seed, shape) ==
    [shape |-> shape,
     data |-> [k \in 1..Numel(shape) |-> Int2Num(1 + ((k + seed) % 2))]]

\* the Parameters __init__ creates for a configuration
InitParams(c) ==
    [linear_in |-> IF c.attn_type = "general"
                   THEN WeightInit(0, <<c.dim, c.dim>>) ELSE NoneT,
     linear_context |-> IF c.attn_type = "mlp"
                        THEN WeightInit(1, <<c.dim, c.dim>>) ELSE NoneT,
     linear_query |-> IF c.attn_type = "mlp"
                      THEN WeightInit(0, <<c.dim, c.dim>>) ELSE NoneT,
     linear_query_bias |-> IF c.attn_type = "mlp"
                           THEN WeightInit(0, <<c.dim>>) ELSE NoneT,
     v |-> IF c.attn_type = "mlp"
           THEN WeightInit(1, <<1, c.dim>>) ELSE NoneT,
     linear_out |-> IF c.output_attn_h
                    THEN WeightInit(0, <<c.dim, 2 * c.dim>>) ELSE NoneT,
     linear_out_bias |-> IF c.output_attn_h /\ c.attn_type = "mlp"
                         THEN WeightInit(1, <<c.dim>>) ELSE NoneT,
     linear_cover |-> IF c.coverage
                      THEN WeightInit(0, <<c.dim, 1>>) ELSE NoneT]

(***************************************************************************)
(* External collaborators (onmt.utils.misc, onmt.modules.sparse_activations)*)
(***************************************************************************)
\* aeq(*args): all arguments equal the first one
Aeq(args) == \A i \in 1..Len(args) : args[i] = args[1]

\* sequence_mask(lengths, max_len): entry (b, i) is true iff i < lengths[b]
SequenceMask(lengths, max_len) ==
    [shape |-> <<lengths.shape[1], max_len>>,
     data |-> [k \in 1..(lengths.shape[1] * max_len) |->
                 ((k - 1) % max_len) < lengths.data[((k - 1) \div max_len) + 1]]]

\* sparsemax of one row: the projection of the row onto the simplex; an
\* all-masked row yields the all-zero row
Sparsemax(row) ==
    LET fin == {i \in 1..Len(row) : IsFin(row[i])}
        Tau(S) == Div(Sub(SumSeq([j \in 1..Len(row) |->
                                    IF j \in S THEN row[j] ELSE Zero]), One),
                      Int2Num(Cardinality(S)))
        supp == CHOOSE S \in (SUBSET fin) \ {{}} :
                    S = {i \in fin : Lt(Tau(S), row[i])}
    IN  IF fin = {} THEN [i \in 1..Len(row) |-> Zero]
        ELSE [i \in 1..Len(row) |->
                IF i \in supp THEN Sub(row[i], Tau(supp)) ELSE Zero]

(***************************************************************************)
(* score                                                                   *)
(***************************************************************************)
\* score, lines 112-117: the size checks
ScoreCheck(c, h_t, h_s) ==
    Aeq(<<h_s.shape[1], h_t.shape[1]>>)
    /\ Aeq(<<h_s.shape[3], h_t.shape[3]>>)
    /\ Aeq(<<c.dim, h_s.shape[3]>>)

\* score, lines 119-140, for one query row q and one source row h
ScoreRow(c, p, q, h) ==
    CASE c.attn_type = "dot" -> Dot(q, h)
      [] c.attn_type = "general" -> Dot(Linear(p.linear_in, NoneT, q), h)
      [] OTHER ->
            LET wq == Linear(p.linear_query, p.linear_query_bias, q)
                uh == Linear(p.linear_context, NoneT, h)
                wquh == [d \in 1..c.dim |-> Tanh(Add(wq[d], uh[d]))]
            IN  Linear(p.v, NoneT, wquh)[1]

\* score: raw scores of shape (batch, tgt_len, src_len)
Score(c, p, h_t, h_s) ==
    Mk3(h_t.shape[1], h_t.shape[2], h_s.shape[2],
        LAMBDA b, t : [i \in 1..h_s.shape[2] |->
                          ScoreRow(c, p, Row3(h_t, b, t), Row3(h_s, b, i))])

(***************************************************************************)
(* The steps of forward.  A frame holds forward's local variables, the     *)
(* caller's memory_bank buffer (buf_bank), the exception raised so far     *)
(* (err), the numeric steps executed so far (steps) and, for the           *)
(* properties, align_vectors as line 211 leaves it (word_vectors).         *)
(***************************************************************************)
NoIds == [word_utr_ids |-> NoneT, src_lengths |-> NoneT]

Raise(f, e) == [f EXCEPT !.err = e]

Did(f, step) == [f EXCEPT !.steps = Append(@, step)]

\* the frame on entry
Enter(a) ==
    [err |-> "none", steps |-> <<>>, one_step |-> FALSE,
     source |-> a.source, memory_bank |-> a.memory_bank,
     buf_bank |-> a.memory_bank, memory_lengths |-> a.memory_lengths,
     coverage |-> a.coverage, utr_align_vectors |-> a.utr_align_vectors,
     src_word_utr_ids |-> a.src_word_utr_ids,
     word_align |-> NoneT, word_vectors |-> NoneT, align_vectors |-> NoneT,
     c |-> NoneT, attn_h |-> NoneT]

\* line 166: the mode of the call
OneStep(source) == Rank(source) = 2

\* lines 165-173
Promote(f) ==
    LET f1 == IF OneStep(f.source)
              THEN [f EXCEPT !.one_step = TRUE, !.source = Unsqueeze1(@)]
              ELSE [f EXCEPT !.one_step = FALSE]
    IN  IF IsNone(f1.utr_align_vectors) THEN Raise(f1, "AttributeError")
        ELSE IF Rank(f1.utr_align_vectors) = 2
        THEN [f1 EXCEPT !.utr_align_vectors = Unsqueeze1(@)]
        ELSE f1

\* lines 175-181
CheckSizes(c, f) ==
    IF f.err # "none" THEN f ELSE
    IF Aeq(<<f.memory_bank.shape[1], f.source.shape[1],
             f.utr_align_vectors.shape[1]>>)
       /\ Aeq(<<f.memory_bank.shape[3], f.source.shape[3]>>)
       /\ Aeq(<<c.dim, f.memory_bank.shape[3]>>)
       /\ Aeq(<<f.source.shape[2], f.utr_align_vectors.shape[2]>>)
    THEN f ELSE Raise(f, "aeq")

\* lines 184-185
CheckRequired(f) ==
    IF f.err # "none" THEN f ELSE
    IF IsNone(f.utr_align_vectors) THEN Raise(f, "assert_sent_align")
    ELSE IF IsNone(f.memory_lengths) THEN Raise(f, "assert_memory_lengths")
    ELSE f

\* lines 187-190
CheckCoverage(f) ==
    IF f.err # "none" THEN f ELSE
    IF IsNone(f.coverage) THEN f
    ELSE IF Aeq(<<f.memory_bank.shape[1], f.coverage.shape[1]>>)
            /\ Aeq(<<f.memory_bank.shape[2], f.coverage.shape[2]>>)
    THEN f ELSE Raise(f, "aeq")

\* line 194: memory_bank += self.linear_cover(cover).view_as(memory_bank)
AddCover(p, bank, coverage) ==
    [shape |-> bank.shape,
     data |-> [k \in 1..Len(bank.data) |->
                 Add(bank.data[k],
                     Linear(p.linear_cover, NoneT,
                            <<coverage.data[((k - 1) \div bank.shape[3]) + 1]>>)
                         [((k - 1) % bank.shape[3]) + 1])]]

TanhT(t) == [shape |-> t.shape, data |-> [k \in 1..Len(t.data) |-> Tanh(t.data[k])]]

\* lines 192-195: the in-place update writes the caller's buffer, the tanh
\* rebinds the local name to a new tensor
InjectCoverage(c, p, f) ==
    IF f.err # "none" THEN f ELSE
    IF IsNone(f.coverage) THEN f
    ELSE IF ~c.coverage THEN Raise(f, "AttributeError")
    ELSE LET added == AddCover(p, f.memory_bank, f.coverage)
         IN  Did([f EXCEPT !.buf_bank = added, !.memory_bank = TanhT(added)],
                 "coverage")

\* line 199
ComputeScore(c, p, f) ==
    IF f.err # "none" THEN f ELSE
    IF ~ScoreCheck(c, f.source, f.memory_bank) THEN Raise(f, "aeq")
    ELSE Did([f EXCEPT !.word_align = Score(c, p, f.source, f.memory_bank)],
             "score")

\* line 204: word_align.masked_fill_(~mask, -inf) with mask of shape
\* (lengths batch, 1, src_len) broadcast over word_align
MaskedFill(word_align, mask) ==
    Mk3(word_align.shape[1], word_align.shape[2], word_align.shape[3],
        LAMBDA b, t : [i \in 1..word_align.shape[3] |->
            IF mask.data[((IF mask.shape[1] = 1 THEN 1 ELSE b) - 1)
                           * mask.shape[2] + i]
            THEN Row3(word_align, b, t)[i] ELSE NInf])

\* lines 201-204
ApplyMask(f) ==
    IF f.err # "none" THEN f ELSE
    IF IsNone(f.memory_lengths) THEN f
    ELSE LET mask == SequenceMask(f.memory_lengths, f.word_align.shape[3])
         IN  IF mask.shape[1] \notin {1, f.word_align.shape[1]}
             THEN Raise(f, "RuntimeError")
             ELSE Did([f EXCEPT !.word_align = MaskedFill(@, mask)], "mask")

\* F.softmax over one row
Softmax(row) ==
    LET m == MaxSeq(row)
        e == [i \in 1..Len(row) |-> Exp(Sub(row[i], m))]
        z == SumSeq(e)
    IN  [i \in 1..Len(row) |-> Div(e[i], z)]

\* lines 207-211
Normalize(c, f) ==
    IF f.err # "none" THEN f ELSE
    LET w == f.word_align
        a == Mk3(w.shape[1], w.shape[2], w.shape[3],
                 LAMBDA b, t : IF c.attn_func = "softmax"
                               THEN Softmax(Row3(w, b, t))
                               ELSE Sparsemax(Row3(w, b, t)))
    IN  Did([f EXCEPT !.align_vectors = a, !.word_vectors = a], "normalize")

\* LengthsEq with .any() in place of .all()
LengthsEqAny(l1, l2) == \E b \in 1..l1.shape[1] : l1.data[b] = l2.data[b]

\* line 215: memory_lengths.eq(memory_lengths_).all()
LengthsEq(l1, l2) == \A b \in 1..l1.shape[1] : l1.data[b] = l2.data[b]

\* lines 222-229: gather the coarse weight of every word's unit, reweight
\* and renormalize
RescaleRow(align_row, utr_row, ids_row) ==
    LET prod == [i \in 1..Len(align_row) |->
                    Mul(align_row[i], utr_row[ids_row[i] + 1])]
        norm_term == SumSeq(prod)
    IN  [i \in 1..Len(align_row) |-> Div(prod[i], norm_term)]

\* lines 213-229
Rescale(c, f) ==
    IF f.err # "none" THEN f ELSE
    IF ~c.seqHRE_attn_rescale THEN f
    ELSE IF f.src_word_utr_ids = NoIds THEN Raise(f, "TypeError")
    ELSE IF ~LengthsEq(f.memory_lengths, f.src_word_utr_ids.src_lengths)
    THEN Raise(f, "assert_src_lengths")
    ELSE LET a == f.align_vectors
             ids == f.src_word_utr_ids.word_utr_ids
         IN  Did([f EXCEPT !.align_vectors =
                    Mk3(a.shape[1], a.shape[2], a.shape[3],
                        LAMBDA b, t : RescaleRow(Row3(a, b, t),
                                                 Row3(f.utr_align_vectors, b, t),
                                                 Row2(ids, b)))],
                 "rescale")

\* line 234: c = torch.bmm(align_vectors, memory_bank)
Bmm(x, y) ==
    Mk3(x.shape[1], x.shape[2], y.shape[3],
        LAMBDA b, t : [d \in 1..y.shape[3] |->
            SumSeq([i \in 1..x.shape[3] |->
                      Mul(Row3(x, b, t)[i], Row3(y, b, i)[d])])])

Context(f) ==
    IF f.err # "none" THEN f ELSE
    Did([f EXCEPT !.c = Bmm(f.align_vectors, f.memory_bank)], "context")

\* lines 236-243
OutputProjection(c, p, f) ==
    IF f.err # "none" THEN f ELSE
    IF ~c.output_attn_h THEN f
    ELSE Did([f EXCEPT !.attn_h =
                Mk3(f.c.shape[1], f.c.shape[2], c.dim,
                    LAMBDA b, t :
                      LET h == Linear(p.linear_out, p.linear_out_bias,
                                      Row3(f.c, b, t) \o Row3(f.source, b, t))
                      IN  IF c.attn_type \in {"general", "dot"}
                          THEN [d \in 1..c.dim |-> Tanh(h[d])] ELSE h)],
             "output")

\* Layout with the single-step branch lost: every result is transposed
LayoutAlwaysTransposed(one_step, t) ==
    IF IsNone(t) THEN t ELSE Transpose01(t)

\* lines 245-274: the layout of a returned tensor
Layout(one_step, t) ==
    IF IsNone(t) THEN t
    ELSE IF one_step THEN Squeeze1(t) ELSE Transpose01(t)

ReturnLayout(f) ==
    IF f.err # "none" THEN f ELSE
    [f EXCEPT !.c = Layout(f.one_step, @), !.attn_h = Layout(f.one_step, @),
              !.align_vectors = Layout(f.one_step, @),
              !.word_vectors = Layout(f.one_step, @)]

\* forward with the assertions of lines 184-185 placed after the coverage
\* injection
ForwardLateAssert(c, p, a) ==
    LET f0 == Promote(Enter(a))
        f1 == CheckSizes(c, f0)
        f3 == CheckCoverage(f1)
        f4 == InjectCoverage(c, p, f3)
        f2 == CheckRequired(f4)
        f5 == ComputeScore(c, p, f2)
        f6 == ApplyMask(f5)
        f7 == Normalize(c, f6)
        f8 == Rescale(c, f7)
        f9 == Context(f8)
        f10 == OutputProjection(c, p, f9)
    IN  ReturnLayout(f10)

\* forward, lines 165-276: the steps in the order of the code; a step that
\* finds an exception raised passes the frame on unchanged
Forward(c, p, a) ==
    LET f0 == Promote(Enter(a))
        f1 == CheckSizes(c, f0)
        f2 == CheckRequired(f1)
        f3 == CheckCoverage(f2)
        f4 == InjectCoverage(c, p, f3)
        f5 == ComputeScore(c, p, f4)
        f6 == ApplyMask(f5)
        f7 == Normalize(c, f6)
        f8 == Rescale(c, f7)
        f9 == Context(f8)
        f10 == OutputProjection(c, p, f9)
    IN  ReturnLayout(f10)

(***************************************************************************)
(* The caller: the tensors it hands to forward                             *)
(***************************************************************************)
\* the longest source sequence of a call
MaxSrcLen == 2

\* the calls a caller makes on the same tensors before it drops them
MaxCalls == 2

\* batch sizes, target lengths and coarse units the caller uses
Sizes == {1, 2}

Units == {0, 1}

Other(x) == IF x = 1 THEN 2 ELSE 1

QVals == {-1, 1}

BVals == {0, 1}

Uniform == Rat(1, Cardinality(Units))

CoarseRows == {<<One, Zero>>, <<Zero, One>>, <<Uniform, Uniform>>}

FloatT(shape, F(_)) ==
    [shape |-> shape, data |-> [k \in 1..Numel(shape) |-> Int2Num(F(k))]]

LongT(shape, F(_)) == [shape |-> shape, data |-> [k \in 1..Numel(shape) |-> F(k)]]

Args(source, memory_bank, memory_lengths, coverage, utr_align_vectors, src_word_utr_ids) ==
    [source |-> source, memory_bank |-> memory_bank,
     memory_lengths |-> memory_lengths, coverage |-> coverage,
     utr_align_vectors |-> utr_align_vectors,
     src_word_utr_ids |-> src_word_utr_ids]

\* well-formed single-step calls with one batch element, over every choice
\* of scores, length, coarse alignment and unit assignment
ValueCalls(c) ==
    LET S == MaxSrcLen
        D == c.dim
        R == c.seqHRE_attn_rescale
    IN  { Args(FloatT(<<1, D>>, LAMBDA k : q),
               FloatT(<<1, S, D>>,
                      LAMBDA k : bv[((k - 1) \div D) + 1] * (((k - 1) % D) + 1)),
               LongT(<<1>>, LAMBDA k : len),
               NoneT,
               [shape |-> <<1, Cardinality(Units)>>, data |-> cr],
               [word_utr_ids |-> LongT(<<1, S>>, LAMBDA k : ids[k]),
                src_lengths |-> LongT(<<1>>, LAMBDA k : len)]) :
            q \in QVals, bv \in [1..S -> BVals],
            len \in 0..S,
            cr \in IF R THEN CoarseRows ELSE {<<Uniform, Uniform>>},
            ids \in IF R THEN [1..S -> Units] ELSE {[i \in 1..S |-> 0]} }

\* what a caller may get wrong, alone or two at a time
Faults ==
    {{}}
    \cup {{x} : x \in {"q_batch", "q_dim", "bank_dim", "both_dim",
                       "align_batch", "align_tgt", "no_align", "no_lengths",
                       "len_batch", "no_ids", "len_differ"}}
    \cup {{"no_align", "q_dim"}, {"no_lengths", "q_dim"}, {"no_ids", "q_dim"},
          {"len_differ", "q_dim"}, {"len_batch", "len_differ"},
          {"no_lengths", "no_ids"}}

CoverageKinds == {"none", "ok", "batch", "len"}

\* calls of every shape (batch size, mode, target length), well-formed or
\* with faults, over fixed values
ShapeCalls(c) ==
    LET S == MaxSrcLen
        D == c.dim
        U == Cardinality(Units)
        Call(B, one, T, ps, cov, lens) ==
            LET qB == IF "q_batch" \in ps THEN Other(B) ELSE B
                qD == IF {"q_dim", "both_dim"} \cap ps # {} THEN Other(D) ELSE D
                bD == IF {"bank_dim", "both_dim"} \cap ps # {} THEN Other(D) ELSE D
                aB == IF "align_batch" \in ps THEN Other(B) ELSE B
                aT == IF "align_tgt" \in ps THEN Other(T) ELSE T
                lB == IF "len_batch" \in ps THEN Other(B) ELSE B
                lengths == LongT(<<lB>>, LAMBDA k : lens[IF k > B THEN 1 ELSE k])
            IN  Args(FloatT(IF one THEN <<qB, qD>> ELSE <<qB, T, qD>>,
                            LAMBDA k : 1),
                     FloatT(<<B, S, bD>>, LAMBDA k : k % 2),
                     IF "no_lengths" \in ps THEN NoneT ELSE lengths,
                     CASE cov = "none" -> NoneT
                       [] cov = "ok" -> FloatT(<<B, S>>, LAMBDA k : 1)
                       [] cov = "batch" -> FloatT(<<Other(B), S>>, LAMBDA k : 1)
                       [] OTHER -> FloatT(<<B, S + 1>>, LAMBDA k : 1),
                     IF "no_align" \in ps THEN NoneT
                     ELSE [shape |-> IF one /\ aT = 1 THEN <<aB, U>>
                                     ELSE <<aB, aT, U>>,
                           data |-> [k \in 1..(aB * aT * U) |-> Uniform]],
                     IF "no_ids" \in ps THEN NoIds
                     ELSE [word_utr_ids |-> LongT(<<B, S>>, LAMBDA k : (k - 1) % U),
                           src_lengths |->
                               IF "len_differ" \in ps
                               THEN [lengths EXCEPT
                                       !.data[1] = (@ + 1) % (S + 1)]
                               ELSE lengths])
    IN  { Call(B, m[1], m[2], fc[1], fc[2], [b \in 1..B |-> S + 1 - b]) :
            B \in Sizes, m \in {<<TRUE, 1>>} \cup ({FALSE} \X Sizes),
            fc \in (Faults \X {"none", "ok"}) \cup ({{}} \X CoverageKinds) }
        \cup
        UNION { { Call(B, m[1], m[2], {}, cov, lens) :
                    m \in {<<TRUE, 1>>} \cup ({FALSE} \X Sizes),
                    cov \in {"none", "ok"}, lens \in [1..B -> 0..S] } :
                B \in Sizes }

Calls(c) == ValueCalls(c) \cup ShapeCalls(c)

(***************************************************************************)
(* State                                                                   *)
(***************************************************************************)
VARIABLES
    cfg,      \* the unit's construction-time configuration
    params,   \* the unit's Parameters
    pc,       \* the caller: "idle", "ready" (tensors prepared), "done"
    bufs,     \* the caller's tensors, the arguments of forward
    entry,    \* the caller's tensors as they were when the last call began
    ret,      \* what the last call returned or raised
    prev,     \* entry and ret of the call before, on the same tensors
    ncalls    \* calls made on the caller's current tensors

vars == <<cfg, params, pc, bufs, entry, ret, prev, ncalls>>

NoArgs == Args(NoneT, NoneT, NoneT, NoneT, NoneT, NoIds)

NoRet ==
    [err |-> "unset", steps |-> <<>>, c |-> NoneT, attn_h |-> NoneT,
     align_vectors |-> NoneT, word_vectors |-> NoneT]

NoCall == [entry |-> NoArgs, ret |-> NoRet]

\* what forward hands back: its three results, or the exception (with the
\* steps executed and the word-level weights, which the properties read)
Result(f) ==
    IF f.err = "none"
    THEN [err |-> "none", steps |-> f.steps, c |-> f.c, attn_h |-> f.attn_h,
          align_vectors |-> f.align_vectors, word_vectors |-> f.word_vectors]
    ELSE [err |-> f.err, steps |-> f.steps, c |-> NoneT, attn_h |-> NoneT,
          align_vectors |-> NoneT, word_vectors |-> NoneT]

\* Effect with source.unsqueeze_(1) in place of source.unsqueeze(1): the
\* caller's query is promoted in place
EffectUnsqueezeInPlace(a, f) ==
    [a EXCEPT !.memory_bank = f.buf_bank, !.source = f.source]

\* the caller's tensors after a call: forward writes memory_bank in place
\* (line 194) and no other argument
Effect(a, f) == [a EXCEPT !.memory_bank = f.buf_bank]

Init ==
    /\ cfg \in Configs
    /\ params = InitParams(cfg)
    /\ pc = "idle"
    /\ bufs = NoArgs
    /\ entry = NoArgs
    /\ ret = NoRet
    /\ prev = NoCall
    /\ ncalls = 0

\* the caller allocates the tensors of a call
Prepare ==
    /\ pc = "idle"
    /\ bufs' \in Calls(cfg)
    /\ pc' = "ready"
    /\ UNCHANGED <<cfg, params, entry, ret, prev, ncalls>>

\* unit.forward(source, memory_bank, memory_lengths, coverage, ...)
Call ==
    /\ pc = "ready"
    /\ LET f == Forward(cfg, params, bufs)
       IN  /\ bufs' = Effect(bufs, f)
           /\ ret' = Result(f)
    /\ entry' = bufs
    /\ ncalls' = ncalls + 1
    /\ pc' = "done"
    /\ UNCHANGED <<cfg, params, prev>>

\* the caller views its query in the other layout, (batch, dim) or
\* (batch, 1, dim), to call again on the same tensors
OtherMode(a) ==
    [a EXCEPT !.source = IF Rank(@) = 2 THEN Unsqueeze1(@) ELSE Squeeze1(@)]

Reuse ==
    /\ pc = "done"
    /\ ncalls < MaxCalls
    /\ Rank(bufs.source) = 2 \/ bufs.source.shape[2] = 1
    /\ bufs' = OtherMode(bufs)
    /\ prev' = [entry |-> entry, ret |-> ret]
    /\ pc' = "ready"
    /\ UNCHANGED <<cfg, params, entry, ret, ncalls>>

\* the caller drops its tensors and the results
Release ==
    /\ pc = "done"
    /\ pc' = "idle"
    /\ bufs' = NoArgs
    /\ entry' = NoArgs
    /\ ret' = NoRet
    /\ prev' = NoCall
    /\ ncalls' = 0
    /\ UNCHANGED <<cfg, params>>

Next == Prepare \/ Call \/ Reuse \/ Release

Spec == Init /\ [][Next]_vars

(***************************************************************************)
(* Properties                                                              *)
(***************************************************************************)
Done == pc = "done"

Returned == pc = "done" /\ ret.err = "none"

\* sizes of the last call
Batch == entry.memory_bank.shape[1]

SrcLen == entry.memory_bank.shape[2]

SingleStep(a) == Rank(a.source) = 2

TgtLen(a) == IF Rank(a.source) = 2 THEN 1 ELSE a.source.shape[2]

\* the row of a returned tensor for batch element b and query t, in either
\* layout: (batch, .) or (tgt_len, batch, .)
OutRow(x, b, t) == IF Rank(x) = 2 THEN Row2(x, b) ELSE Row3(x, t, b)

Rows == (1..Batch) \X (1..TgtLen(entry))

AllZero(r) == \A i \in 1..Len(r) : IsZero(r[i])

HasNaN(r) == \E i \in 1..Len(r) : IsNaN(r[i])

BatchOf(t) == IF IsNone(t) THEN {} ELSE {t.shape[1]}

\* the inputs disagree in batch size, feature dimension, target length or
\* in the shape of the coverage accumulator
ShapeDisagree(c, a) ==
    \/ Cardinality({a.source.shape[1], a.memory_bank.shape[1]}
                   \cup BatchOf(a.utr_align_vectors) \cup BatchOf(a.coverage)
                   \cup BatchOf(a.memory_lengths)) > 1
    \/ Cardinality({a.source.shape[Rank(a.source)], a.memory_bank.shape[3],
                    c.dim}) > 1
    \/ /\ ~IsNone(a.utr_align_vectors)
       /\ TgtLen(a) # (IF Rank(a.utr_align_vectors) = 2 THEN 1
                       ELSE a.utr_align_vectors.shape[2])
    \/ /\ ~IsNone(a.coverage)
       /\ a.coverage.shape # <<a.memory_bank.shape[1], a.memory_bank.shape[2]>>

\* an argument that masking or rescaling requires is absent
MissingInput(c, a) ==
    \/ IsNone(a.utr_align_vectors)
    \/ IsNone(a.memory_lengths)
    \/ c.seqHRE_attn_rescale /\ a.src_word_utr_ids = NoIds

\* a call that supplies what the configuration needs, in agreeing shapes
WellFormed(c, a) ==
    /\ ~ShapeDisagree(c, a)
    /\ ~MissingInput(c, a)
    /\ a.src_word_utr_ids # NoIds
    /\ ~IsNone(a.coverage) => c.coverage

\* a valid call has returned: one length per batch element, none missing
ValidReturned == Returned /\ WellFormed(cfg, entry)

LengthOf(b) == entry.memory_lengths.data[b]

\* C1: every row of the returned distribution is non-negative, exactly 0 at
\* every position i >= length[b], and sums to 1 over the positions
\* i < length[b] (the sum is required of rows with at least one such position)
C1_RowsAreDistributions ==
    ValidReturned =>
        \A bt \in Rows :
            LET r == OutRow(ret.align_vectors, bt[1], bt[2])
                len == LengthOf(bt[1])
            IN  /\ \A i \in 1..SrcLen : IsFin(r[i]) /\ r[i].n >= 0
                /\ \A i \in (len + 1)..SrcLen : IsZero(r[i])
                /\ len >= 1 => SumSeq(SubSeq(r, 1, len)) = One

\* C2: a batch element of source length 0 gets an all-zero distribution and
\* a zero context vector in each of its rows, with no NaN in either
C2_EmptySourceGivesZeros ==
    ValidReturned =>
        \A bt \in Rows :
            LengthOf(bt[1]) = 0 =>
                /\ AllZero(OutRow(ret.align_vectors, bt[1], bt[2]))
                /\ AllZero(OutRow(ret.c, bt[1], bt[2]))

\* C3: with rescaling enabled the returned distribution is exactly 0 at
\* every padded position i >= length[b], whatever the coarse alignment and
\* the unit assignment are
C3_RescalingKeepsPaddingZero ==
    (ValidReturned /\ cfg.seqHRE_attn_rescale) =>
        \A bt \in Rows :
            \A i \in (LengthOf(bt[1]) + 1)..SrcLen :
                IsZero(OutRow(ret.align_vectors, bt[1], bt[2])[i])

\* two results that differ in layout only: (batch, .) against (1, batch, .)
SameUpToLayout(x, y) ==
    /\ x.data = y.data
    /\ IF Rank(x) = 2 THEN y.shape = <<1>> \o x.shape
       ELSE IF Rank(y) = 2 THEN x.shape = <<1>> \o y.shape
       ELSE IsNone(x) /\ IsNone(y)

\* the last two calls were made on the same tensors, one with the query as
\* (batch, dim) and one with it as (batch, 1, dim)
BothModes ==
    /\ pc = "done"
    /\ prev # NoCall
    /\ entry = OtherMode(prev.entry)

\* C4: single-step mode and multi-step mode with target_len = 1 yield the
\* same context vector, projected output and attention distribution and
\* differ in layout only
C4_ModeIsLayoutOnly ==
    BothModes =>
        /\ ret.err = prev.ret.err
        /\ SameUpToLayout(ret.c, prev.ret.c)
        /\ SameUpToLayout(ret.attn_h, prev.ret.attn_h)
        /\ SameUpToLayout(ret.align_vectors, prev.ret.align_vectors)
        /\ ret.err = "none" =>
              (Rank(ret.c) = 2) # (Rank(prev.ret.c) = 2)

C4_Witness ==
    /\ BothModes
    /\ ret.err = "none"
    /\ cfg.output_attn_h
    /\ cfg.seqHRE_attn_rescale
    /\ Batch = 2
    /\ SingleStep(entry)
    /\ ~HasNaN(ret.align_vectors.data)
    /\ \E i \in 1..Len(ret.align_vectors.data) : ~IsZero(ret.align_vectors.data[i])

\* C5: inputs that disagree in batch size, feature dimension, target length
\* or coverage shape raise the shape-mismatch error before any numeric work
\* and before the source bank is written
C5_ShapeMismatchRaisedFirst ==
    (Done /\ ShapeDisagree(cfg, entry)) =>
        /\ ret.err = "aeq"
        /\ ret.steps = <<>>
        /\ bufs.memory_bank = entry.memory_bank

\* C6: a call that omits a required argument (source lengths, coarse
\* alignment, unit assignment under rescaling) is rejected at once with the
\* assertion written for that argument, before any numeric work
C6_MissingInputRejected ==
    (Done /\ MissingInput(cfg, entry) /\ ~ShapeDisagree(cfg, entry)) =>
        /\ ret.err \in {"assert_sent_align", "assert_memory_lengths"}
        /\ ret.steps = <<>>
        /\ bufs.memory_bank = entry.memory_bank

LengthsDiffer(a) ==
    \E b \in 1..a.memory_lengths.shape[1] :
        a.memory_lengths.data[b] # a.src_word_utr_ids.src_lengths.data[b]

\* C7: with rescaling enabled, unit-assignment lengths that differ from the
\* source lengths in some batch element raise the consistency assertion and
\* nothing is returned, equal lengths pass and rescaling proceeds; with
\* rescaling disabled the unit assignment is never read
C7_UnitLengthsChecked ==
    Done =>
        /\ (cfg.seqHRE_attn_rescale /\ WellFormed(cfg, entry)) =>
              IF LengthsDiffer(entry)
              THEN ret.err = "assert_src_lengths" /\ IsNone(ret.align_vectors)
                   /\ IsNone(ret.c) /\ "rescale" \notin Range(ret.steps)
              ELSE ret.err = "none"
                   /\ "rescale" \in Range(ret.steps)
        /\ ~cfg.seqHRE_attn_rescale =>
              /\ ret.err \notin {"assert_src_lengths", "TypeError"}
              /\ "rescale" \notin Range(ret.steps)
              /\ ret = Result(Forward(cfg, params,
                                      [entry EXCEPT !.src_word_utr_ids = NoIds]))

C7_Witness ==
    /\ Done
    /\ cfg.seqHRE_attn_rescale
    /\ WellFormed(cfg, entry)
    /\ Batch = 2
    /\ entry.memory_lengths.data[1] # entry.src_word_utr_ids.src_lengths.data[1]
    /\ entry.memory_lengths.data[2] = entry.src_word_utr_ids.src_lengths.data[2]
    /\ ret.err = "assert_src_lengths"

\* the coarse alignment gives every unit the weight 1/num_units
UniformCoarse(a) ==
    \A k \in 1..Len(a.utr_align_vectors.data) :
        a.utr_align_vectors.data[k] = Uniform

\* two distributions x and y order the positions of every row alike
SameOrder(x, y) ==
    \A bt \in Rows :
        \A i, j \in 1..SrcLen :
            Lt(OutRow(y, bt[1], bt[2])[i], OutRow(y, bt[1], bt[2])[j])
            <=> Lt(OutRow(x, bt[1], bt[2])[i], OutRow(x, bt[1], bt[2])[j])

\* two distributions x and y tie at the same pairs of positions of every row
SameTies(x, y) ==
    \A bt \in Rows :
        \A i, j \in 1..SrcLen :
            NumEq(OutRow(y, bt[1], bt[2])[i], OutRow(y, bt[1], bt[2])[j])
            <=> NumEq(OutRow(x, bt[1], bt[2])[i], OutRow(x, bt[1], bt[2])[j])

\* C8: under a uniform coarse alignment rescaling preserves the order of the
\* word-level weights of every row: w'[i] < w'[j] exactly when w[i] < w[j],
\* and w'[i] = w'[j] exactly when w[i] = w[j]
C8_UniformRescalingKeepsOrder ==
    (ValidReturned /\ cfg.seqHRE_attn_rescale /\ UniformCoarse(entry)) =>
        /\ SameOrder(ret.word_vectors, ret.align_vectors)
        /\ SameTies(ret.word_vectors, ret.align_vectors)

\* a step of the model is a call of forward
IsCall == pc = "ready" /\ pc' = "done"

\* C9: no step changes the configuration or the Parameters; a call's mode
\* follows from the rank of its own query; a call leaves every argument but
\* the source bank as it was, and the source bank too when no coverage
\* accumulator is supplied
C9_FrameOfForward ==
    [][/\ cfg' = cfg
       /\ params' = params
       /\ IsCall =>
            /\ bufs' = [bufs EXCEPT !.memory_bank = bufs'.memory_bank]
            /\ IsNone(bufs.coverage) => bufs' = bufs
            /\ ret'.err = "none" =>
                  ((Rank(ret'.c) = 2) <=> (Rank(bufs.source) = 2))]_vars

C9_Witness ==
    /\ Returned
    /\ prev.ret.err = "none"
    /\ Rank(prev.ret.c) # Rank(ret.c)
    /\ ~IsNone(entry.coverage)
    /\ bufs.memory_bank # entry.memory_bank
    /\ bufs = [entry EXCEPT !.memory_bank = bufs.memory_bank]

\* exceptions of the checks that forward makes before the coverage injection
\* of line 194, and of those it makes after it
EarlyErrors == {"aeq", "assert_memory_lengths", "AttributeError"}

LateErrors == {"RuntimeError", "TypeError", "assert_src_lengths"}

\* C10 as claimed: a call that ends in an error leaves the source bank as it
\* was
C10_ErrorLeavesBank ==
    (Done /\ ret.err # "none") => bufs.memory_bank = entry.memory_bank

\* C10 as amended: the shape checks and the source-lengths assertion come
\* before the coverage injection and leave the source bank as it was; the
\* mask broadcast and the unit-assignment checks of the rescaling path come
\* after it, and a call that ends in one of them with a coverage accumulator
\* supplied has already written the source bank
C10_EarlyErrorsLeaveBank ==
    (Done /\ ret.err # "none") =>
        /\ ret.err \in EarlyErrors \cup LateErrors
        /\ ret.err \in EarlyErrors =>
              ret.steps = <<>> /\ bufs.memory_bank = entry.memory_bank
        /\ ret.err \in LateErrors =>
              IF IsNone(entry.coverage)
              THEN bufs.memory_bank = entry.memory_bank
              ELSE /\ Head(ret.steps) = "coverage"
                   /\ bufs.memory_bank =
                        AddCover(params, entry.memory_bank, entry.coverage)
                   /\ bufs.memory_bank # entry.memory_bank

C10_Witness ==
    /\ Done
    /\ ret.err = "assert_src_lengths"
    /\ ~IsNone(entry.coverage)
    /\ bufs.memory_bank # entry.memory_bank

=============================================================================
